---- MODULE Spec2Model ----
(***************************************************************************)
(* Deduper decision engine of Pixie-sh/dedup-go (src/dedup.go) over the    *)
(* Redis storage adapter.  Several callers share one Deduper and one       *)
(* store; every store round-trip of a call is one atomic step, and the     *)
(* local computation of a call is folded into the step that precedes it.   *)
(*                                                                         *)
(* Bytes and characters are integers, byte slices and strings are          *)
(* sequences of integers.  Durations are whole time units.                 *)
(***************************************************************************)
EXTENDS Integers, Sequences, FiniteSets, TLC

\* ---------------------------------------------------------------- bounds
MaxCalls == 2        \* calls issued in one behaviour
MaxTTL   == 1        \* largest expiration a caller passes
MaxSpare == 1        \* largest spare capacity of the prefix's backing array

Procs     == {"p1", "p2"}       \* concurrent callers of the one Deduper
Durations == 0..MaxTTL

\* ------------------------------------------------------- HashMode, strategy
AutoSmart  == 0
AlwaysHash == 1
NeverHash  == 2

HashStrategy(km, vm, kt, vt) ==
    [KeyHashMode |-> km, ValueHashMode |-> vm, KeyThreshold |-> kt, ValThreshold |-> vt]

\* The strategies callers pass.  The thresholds are scaled down with the
\* inputs: under the first strategy a one-byte fingerprint input stays raw
\* and a three-byte serialization is digested.
Strategies ==
    { HashStrategy(AutoSmart,  AutoSmart, 1, 2),
      HashStrategy(AlwaysHash, NeverHash, 1, 2) }

\* ------------------------------------------------------------------ errors
NoError                 == "nil"
EntityNilError          == "DedupEntityNilErrorCode"
EntityTypeMismatchError == "DedupEntityTypeMismatchErrorCode"
StorageError            == "DedupStorageErrorCode"
MissingKeyError         == "DedupMissingKeyErrorCode"
NoExpirationError       == "DedupNoExpeirationKeyErrorCode"
ExtractorError          == "extractor error"     \* the caller's error, as is
UncodedMatchError       == "matcher error, wrapped without a code"
InvalidHashError        == "DedupInvalidHashErrorCode"

\* The error codes the package defines: the kinds an error can be tagged with.
ErrorCodes ==
    { EntityNilError, InvalidHashError, StorageError, MissingKeyError,
      NoExpirationError, EntityTypeMismatchError }

\* ---------------------------------------------------------------- entities
\* An `any` handed to the Deduper: nil, a value of another type, or a T.
\* A T has an id, from which the caller's extractor builds the fingerprint
\* input, and a name, which only the serializer sees.
Entity(k, i, n) == [kind |-> k, id |-> i, name |-> n]

NilEntity   == Entity("nil",   <<>>, <<>>)
WrongEntity == Entity("wrong", <<>>, <<>>)

TEntities ==
    { Entity("T", <<1>>, <<7>>),
      Entity("T", <<2>>, <<7>>) }

Entities == {NilEntity, WrongEntity} \cup TEntities

\* Fingerprints handed directly to StoreHash and TTL.
Fingerprints == { <<1>>, <<2>> }

\* storeIfNot ...time.Duration: nothing, a TTL, or a TTL and a flag.
StoreIfNots ==
    {<<>>} \cup { <<t>> : t \in Durations } \cup { <<t, f>> : t \in Durations, f \in {0, 1} }

\* ----------------------------------------------------- caller's functions
\* hashHandler of the caller: the bytes of the id.
Extract(e) == e.id

\* serializeHandler of the caller: id and name, separated by ':'.
Serialize(e) == e.id \o <<58>> \o e.name

\* ------------------------------------------------------------------ digest
RECURSIVE SumSeq(_)
SumSeq(s) == IF s = <<>> THEN 0 ELSE Head(s) + SumSeq(Tail(s))

\* hasher(): h.Write(input); h.Sum(nil).  A fixed-length digest with
\* collisions, as every digest onto a fixed length has.
Digest(s) == << 200 + (SumSeq(s) % 2), 200 + (Len(s) % 2) >>

\* hex.EncodeToString: two lower-case hex characters per byte.
HexChar(n) == IF n < 10 THEN 48 + n ELSE 87 + n

RECURSIVE HexEncode(_)
HexEncode(s) ==
    IF s = <<>> THEN <<>>
    ELSE << HexChar(Head(s) \div 16), HexChar(Head(s) % 16) >> \o HexEncode(Tail(s))

\* []byte("1")
Sentinel == <<49>>

\* ---------------------------------------------------------------- handler
\* The result of the fingerprint path: the error, the bytes, whether the
\* caller's extractor was invoked and whether d.hasher() was.
HashResult(err, val, extracted, digested) ==
    [err |-> err, val |-> val, extracted |-> extracted, digested |-> digested]

\* A wrapper that hands every non-nil entity to the caller's extractor
\* without asserting its type.
Handler_unchecked(entity, extractorFails) ==
    IF entity.kind = "nil" THEN HashResult(EntityNilError, <<>>, FALSE, FALSE)
    ELSE IF extractorFails THEN HashResult(ExtractorError, <<>>, TRUE, FALSE)
    ELSE IF entity.kind # "T" THEN HashResult(NoError, <<>>, TRUE, FALSE)
    ELSE HashResult(NoError, Extract(entity), TRUE, FALSE)

\* The wrapper NewDeduper puts around the caller's extractor.  extractorFails
\* is the outcome of the caller's function on this call.
Handler(entity, extractorFails) ==
    IF entity.kind = "nil" THEN HashResult(EntityNilError, <<>>, FALSE, FALSE)
    ELSE IF entity.kind # "T" THEN HashResult(EntityTypeMismatchError, <<>>, FALSE, FALSE)
    ELSE IF extractorFails THEN HashResult(ExtractorError, <<>>, TRUE, FALSE)
    ELSE HashResult(NoError, Extract(entity), TRUE, FALSE)

\* A Hash whose AutoSmart digests an input as long as the threshold.
Hash_strict(entity, strategy, isValue, extractorFails) ==
    LET input     == Handler(entity, extractorFails)
        mode      == IF isValue THEN strategy.ValueHashMode ELSE strategy.KeyHashMode
        threshold == IF isValue THEN strategy.ValThreshold ELSE strategy.KeyThreshold
    IN  IF input.err # NoError THEN input
        ELSE IF mode = NeverHash \/ (mode = AutoSmart /\ Len(input.val) < threshold)
             THEN input
             ELSE HashResult(NoError, Digest(input.val), TRUE, TRUE)

\* Deduper.Hash
Hash(entity, strategy, isValue, extractorFails) ==
    LET input     == Handler(entity, extractorFails)
        mode      == IF isValue THEN strategy.ValueHashMode ELSE strategy.KeyHashMode
        threshold == IF isValue THEN strategy.ValThreshold ELSE strategy.KeyThreshold
    IN  IF input.err # NoError THEN input
        ELSE IF mode = NeverHash \/ (mode = AutoSmart /\ Len(input.val) <= threshold)
             THEN input
             ELSE HashResult(NoError, Digest(input.val), TRUE, TRUE)

\* A store that digests every serialization over the threshold, whatever
\* the mode.
ValueDigested_eager(ser, strategy) ==
    strategy.ValueHashMode = AlwaysHash \/ Len(ser) > strategy.ValThreshold

\* The condition under which Deduper.store digests the serialization.
ValueDigested(ser, strategy) ==
    /\ strategy.ValueHashMode # NeverHash
    /\ (strategy.ValueHashMode = AlwaysHash \/ Len(ser) > strategy.ValThreshold)

\* The value reduction of Deduper.store.
ReduceValue(ser, strategy) ==
    IF ValueDigested(ser, strategy) THEN HexEncode(Digest(ser)) ELSE ser

\* ------------------------------------------------------------------- state
VARIABLES
    prefix,     \* Deduper.prefix, the bytes NewDeduper built
    tail,       \* the spare capacity behind prefix in its backing array
    redis,      \* the keyspace of the store: key -> [val, ttl]
    call,       \* the frame of each caller's call in progress
    calls,      \* calls issued so far
    crashed,    \* an unrecovered panic has ended the process
    ledger      \* history: the key each successful write was meant for -> [by, ttl]

vars == << prefix, tail, redis, call, calls, crashed, ledger >>

\* ------------------------------------------------------------- NewDeduper
\* nameOf[T]()
TypeName == <<84>>

\* customPrefix ...string
CustomPrefixes == { <<>>, << <<>> >>, << <<99, 58>> >> }

\* "dedup:%s:" unless a non-empty custom prefix is given
NewDeduper(name, customPrefix) ==
    IF Len(customPrefix) > 0 /\ customPrefix[1] # <<>>
    THEN customPrefix[1]
    ELSE <<100, 101, 100, 117, 112, 58>> \o name \o <<58>>

\* ---------------------------------------------------------------- buildKey
\* append(d.prefix, hash...): when the hash fits the spare capacity of the
\* prefix's backing array the result is a slice of that array, shared by
\* every key built this way; otherwise a fresh array is allocated.
NoKey == [shared |-> FALSE, n |-> 0, bytes |-> <<>>]

buildKey(hash) ==
    IF Len(hash) <= Len(tail)
    THEN [shared |-> TRUE,  n |-> Len(hash), bytes |-> <<>>]
    ELSE [shared |-> FALSE, n |-> Len(hash), bytes |-> prefix \o hash]

\* The backing array after buildKey(hash).
buildKeyTail(hash) ==
    IF Len(hash) <= Len(tail)
    THEN [i \in 1..Len(tail) |-> IF i <= Len(hash) THEN hash[i] ELSE tail[i]]
    ELSE tail

\* The bytes a key slice denotes now.
KeyBytes(key) ==
    IF key.shared THEN prefix \o SubSeq(tail, 1, key.n) ELSE key.bytes

\* ------------------------------------------------------------------ store
\* What Redis reports for keys without expiry and for missing keys.
NoExpiry   == -1
MissingKey == -2

\* RedisStorage.Exists
Exists(key) == key \in DOMAIN redis

\* RedisStorage.Get: nil for a missing key, the value otherwise
NilBytes == [nil |-> TRUE, bytes |-> <<>>]
Get(key) ==
    IF key \in DOMAIN redis THEN [nil |-> FALSE, bytes |-> redis[key].val] ELSE NilBytes

\* RedisStorage.SetEX: SET key value with the expiration; 0 means no expiry
SetEX(kv, key, value, expiration) ==
    [k \in DOMAIN kv \cup {key} |->
        IF k = key
        THEN [val |-> value, ttl |-> IF expiration > 0 THEN expiration ELSE NoExpiry]
        ELSE kv[k]]

\* RedisStorage.TTL
StorageTTL(key) ==
    IF key \in DOMAIN redis THEN redis[key].ttl ELSE MissingKey

\* The history of the writes the calls completed: the key a call meant
\* (prefix ++ its fingerprint), the operation, and the time the record has left.
Reported(l, key, expiration, op) ==
    [k \in DOMAIN l \cup {key} |->
        IF k = key
        THEN [by |-> op, ttl |-> IF expiration > 0 THEN expiration ELSE NoExpiry]
        ELSE l[k]]

\* One time unit passes in a keyspace: expired keys leave it.
Elapse(kv) ==
    [k \in {x \in DOMAIN kv : kv[x].ttl # 1} |->
        [kv[k] EXCEPT !.ttl = IF @ > 0 THEN @ - 1 ELSE @]]

\* IsEmpty: reflect.DeepEqual with the zero value; for a []byte only nil
IsEmpty(bytes) == bytes.nil

\* ------------------------------------------------------------------ frames
NoRet == [val |-> FALSE, err |-> NoError, hash |-> <<>>, key |-> NoKey, ttl |-> 0]

\* The frame of a call: its arguments, its locals, its position, its result,
\* and what passed between it and its collaborators.
Idle ==
    [op |-> "none", pc |-> "idle",
     entity |-> NilEntity, strategy |-> HashStrategy(AutoSmart, AutoSmart, 0, 0),
     storeIfNot |-> <<>>,
     dedupHash |-> <<>>, key |-> NoKey, value |-> <<>>, expiration |-> 0,
     exists |-> FALSE, existing |-> NilBytes, match |-> FALSE, path |-> "",
     ret |-> NoRet,
     logged   |-> FALSE,   \* an error line went to the logger
     readKey  |-> <<>>,    \* the bytes handed to Exists or Get
     read     |-> FALSE,   \* Exists or Get answered
     present  |-> FALSE,   \* prefix ++ fingerprint was in the store then
     expected |-> "none",  \* the operation whose write to it was still live then
     verdict  |-> "",      \* what the matcher answered
     wrote    |-> FALSE,   \* a SetEX round-trip was issued
     wroteKey |-> <<>>,    \* the bytes handed to SetEX
     writeErr |-> "",      \* what failed on the way to the write, if anything
     readErr   |-> FALSE,  \* Exists or Get failed
     isValue   |-> FALSE,  \* the isValue argument of Hash
     extracted |-> FALSE,  \* the caller's extractor was invoked
     keyDigest |-> FALSE,  \* d.hasher() was invoked for the fingerprint
     valDigest |-> FALSE,  \* d.hasher() was invoked for the stored value
     rawTTL    |-> 0,      \* what storage.TTL answered
     liveTTL   |-> 0,      \* the time the write to prefix ++ fingerprint had left then
     trips     |-> <<>>]   \* the store round-trips issued, in order

Begin(op, entity, strategy, storeIfNot) ==
    [Idle EXCEPT !.op = op, !.entity = entity, !.strategy = strategy,
                 !.storeIfNot = storeIfNot]

Return(f, val, err) ==
    [f EXCEPT !.pc = "done", !.ret = [NoRet EXCEPT !.val = val, !.err = err]]

Logged(f) == [f EXCEPT !.logged = TRUE]

\* The frame after a pass through Deduper.Hash with result h.
Hashed(f, h) ==
    [f EXCEPT !.extracted = @ \/ h.extracted, !.keyDigest = @ \/ h.digested]

\* The primary read of each operation.
ReadOp(f) ==
    IF f.op = "IsDuplicate" THEN "Exists"
    ELSE IF f.op = "IsValueDuplicate" THEN "Get"
    ELSE "TTL"

\* The key the call means: prefix ++ its own fingerprint.
OwnKey(f) == prefix \o f.dedupHash

\* The answer of the primary read, with what the store held at that moment.
Observed(f) ==
    [f EXCEPT !.readKey = KeyBytes(f.key), !.read = TRUE,
              !.trips = Append(@, ReadOp(f)),
              !.present = Exists(OwnKey(f)),
              !.expected = IF OwnKey(f) \in DOMAIN ledger THEN ledger[OwnKey(f)].by
                           ELSE "none"]

\* The local part of Deduper.store, up to the SetEX round-trip.
store(f, expiration, serializerFails) ==
    LET g == [f EXCEPT !.key = buildKey(f.dedupHash)]
    IN  IF serializerFails
        THEN [err |-> StorageError, frame |-> [g EXCEPT !.writeErr = "serializer"]]
        ELSE [err |-> NoError,
              frame |-> [g EXCEPT !.value = ReduceValue(Serialize(f.entity), f.strategy),
                                  !.valDigest = ValueDigested(Serialize(f.entity), f.strategy),
                                  !.expiration = expiration,
                                  !.pc = "SetEX"]]

\* A SetEX round-trip that is issued again when it fails.
Write_retried(f, ok) ==
    [f EXCEPT !.wroteKey = KeyBytes(f.key), !.wrote = TRUE,
              !.trips = IF ok THEN Append(@, "SetEX") ELSE @ \o <<"SetEX", "SetEX">>,
              !.writeErr = IF ok THEN "" ELSE "SetEX"]

\* The SetEX round-trip of Deduper.store: the frame, and the store after it.
Write(f, ok) ==
    [f EXCEPT !.wroteKey = KeyBytes(f.key), !.wrote = TRUE,
              !.trips = Append(@, "SetEX"),
              !.writeErr = IF ok THEN "" ELSE "SetEX"]

\* A write that gives way to a record already under the key.
storeSetEX_ifAbsent(kv, f) ==
    IF KeyBytes(f.key) \in DOMAIN kv THEN kv
    ELSE SetEX(kv, KeyBytes(f.key), f.value, f.expiration)

\* A write that puts its record in place of the whole keyspace.
storeSetEX_replacing(kv, f) == SetEX(<< >>, KeyBytes(f.key), f.value, f.expiration)

storeSetEX(kv, f) == SetEX(kv, KeyBytes(f.key), f.value, f.expiration)

Init ==
    /\ prefix = NewDeduper(TypeName, <<>>)
    /\ \E spare \in 0..MaxSpare : tail = [i \in 1..spare |-> 0]
    /\ redis = << >>
    /\ ledger = << >>
    /\ call = [p \in Procs |-> Idle]
    /\ calls = 0
    /\ crashed = FALSE

\* A caller is free before its first call and once its call has returned.
\* A new call takes the first free caller: the callers are interchangeable.
Free(p) == call[p].pc \in {"idle", "done"}

CanCall(p) ==
    /\ ~crashed
    /\ calls < MaxCalls
    /\ Free(p)
    /\ p = "p2" => ~Free("p1")

\* An entry that builds the key whatever Hash returned.
Enter_unchecked(p, f, h, pc) ==
    /\ call' = [call EXCEPT ![p] =
                  [Hashed(f, h) EXCEPT !.dedupHash = h.val, !.key = buildKey(h.val),
                                       !.pc = pc]]
    /\ tail' = buildKeyTail(h.val)

\* The entry of IsDuplicate and IsValueDuplicate: Hash, then buildKey.
Enter(p, f, h, pc) ==
    IF h.err # NoError
    THEN /\ call' = [call EXCEPT ![p] = Return(Hashed(f, h), FALSE, h.err)]
         /\ tail' = tail
    ELSE /\ call' = [call EXCEPT ![p] =
                       [Hashed(f, h) EXCEPT !.dedupHash = h.val, !.key = buildKey(h.val),
                                            !.pc = pc]]
         /\ tail' = buildKeyTail(h.val)

\* A failed read taken for an absent key.
ReadFailed_ignored(f) ==
    Return([f EXCEPT !.readKey = KeyBytes(f.key), !.readErr = TRUE,
                     !.trips = Append(@, ReadOp(f))], FALSE, NoError)

\* The primary read, Exists or Get, failed: the call ends with a StorageError.
ReadFailed(f) ==
    Return([f EXCEPT !.readKey = KeyBytes(f.key), !.readErr = TRUE,
                     !.trips = Append(@, ReadOp(f))], FALSE, StorageError)

\* ------------------------------------------------------------- IsDuplicate
\* A write-back whose failure reaches the caller.
WriteBackFailed_propagated(f, err) == Return(Logged(f), f.exists, err)

\* The write-back of IsDuplicate failed with err.
WriteBackFailed(f, err) == Return(Logged(f), f.exists, NoError)

\* What IsDuplicate returns.
IsDuplicateResult(f) == Return(f, f.exists, NoError)

IsDuplicate_Call(p, entity, strategy, storeIfNot, extractorFails) ==
    /\ CanCall(p)
    /\ Enter(p, Begin("IsDuplicate", entity, strategy, storeIfNot),
             Hash(entity, strategy, FALSE, extractorFails), "Exists")
    /\ calls' = calls + 1
    /\ UNCHANGED << prefix, redis, crashed, ledger >>

IsDuplicate_Exists(p, ok, extractorFails, serializerFails) ==
    /\ ~crashed
    /\ call[p].op = "IsDuplicate" /\ call[p].pc = "Exists"
    /\ LET exists == Exists(KeyBytes(call[p].key))
           f == [Observed(call[p]) EXCEPT !.exists = exists]
       IN  IF ~ok
           THEN /\ call' = [call EXCEPT ![p] = ReadFailed(call[p])]
                /\ tail' = tail
           ELSE IF ~exists /\ Len(f.storeIfNot) > 0
           THEN \* d.Store: Hash again, then d.store
                LET h == Hash(f.entity, f.strategy, FALSE, extractorFails)
                    s == store(Hashed(f, h), f.storeIfNot[1], serializerFails)
                IN  IF h.err # NoError
                    THEN /\ call' = [call EXCEPT ![p] =
                                WriteBackFailed([Hashed(f, h) EXCEPT !.writeErr = "extractor"],
                                                h.err)]
                         /\ tail' = tail
                    ELSE /\ tail' = buildKeyTail(f.dedupHash)
                         /\ call' = [call EXCEPT ![p] =
                                IF s.err # NoError
                                THEN WriteBackFailed(s.frame, s.err)
                                ELSE s.frame]
           ELSE /\ call' = [call EXCEPT ![p] = IsDuplicateResult(f)]
                /\ tail' = tail
    /\ UNCHANGED << prefix, redis, calls, crashed, ledger >>

IsDuplicate_SetEX(p, ok) ==
    /\ ~crashed
    /\ call[p].op = "IsDuplicate" /\ call[p].pc = "SetEX"
    /\ LET f == Write(call[p], ok)
       IN  IF ok
           THEN /\ redis' = storeSetEX(redis, call[p])
                /\ ledger' = Reported(ledger, OwnKey(f), f.expiration, f.op)
                /\ call' = [call EXCEPT ![p] = IsDuplicateResult(f)]
           ELSE /\ call' = [call EXCEPT ![p] = WriteBackFailed(f, StorageError)]
                /\ UNCHANGED << redis, ledger >>
    /\ UNCHANGED << prefix, tail, calls, crashed >>

\* ------------------------------------------------------------------- Store
\* A failed write that still hands the fingerprint and the key to the caller.
StoreFailed_partial(f) ==
    [Return(f, FALSE, StorageError) EXCEPT !.ret.hash = f.dedupHash, !.ret.key = f.key]

\* The SetEX of Deduper.store failed: nil, nil and a StorageError.
StoreFailed(f) == Return(f, FALSE, StorageError)

Store_Call(p, entity, strategy, expiration, extractorFails, serializerFails) ==
    /\ CanCall(p)
    /\ LET h == Hash(entity, strategy, FALSE, extractorFails)
           f0 == Hashed(Begin("Store", entity, strategy, <<>>), h)
           s == store([f0 EXCEPT !.dedupHash = h.val], expiration, serializerFails)
       IN  IF h.err # NoError
           THEN /\ call' = [call EXCEPT ![p] = Return(f0, FALSE, h.err)]
                /\ tail' = tail
           ELSE /\ tail' = buildKeyTail(h.val)
                /\ call' = [call EXCEPT ![p] =
                       IF s.err # NoError THEN Return(s.frame, FALSE, s.err) ELSE s.frame]
    /\ calls' = calls + 1
    /\ UNCHANGED << prefix, redis, crashed, ledger >>

Store_SetEX(p, ok) ==
    /\ ~crashed
    /\ call[p].op = "Store" /\ call[p].pc = "SetEX"
    /\ LET f == Write(call[p], ok)
       IN  IF ok
           THEN /\ redis' = storeSetEX(redis, call[p])
                /\ ledger' = Reported(ledger, OwnKey(f), f.expiration, f.op)
                /\ call' = [call EXCEPT ![p] =
                       [f EXCEPT !.pc = "done",
                                 !.ret = [NoRet EXCEPT !.val = TRUE, !.hash = f.dedupHash,
                                                       !.key = f.key]]]
           ELSE /\ call' = [call EXCEPT ![p] = StoreFailed(f)]
                /\ UNCHANGED << redis, ledger >>
    /\ UNCHANGED << prefix, tail, calls, crashed >>

\* -------------------------------------------------------------------- Hash
\* Deduper.Hash called directly: the fingerprint, or the error.
Hash_Call(p, entity, strategy, isValue, extractorFails) ==
    /\ CanCall(p)
    /\ LET h == Hash(entity, strategy, isValue, extractorFails)
           f == Hashed([Begin("Hash", entity, strategy, <<>>) EXCEPT !.isValue = isValue], h)
       IN  call' = [call EXCEPT ![p] =
                      [f EXCEPT !.pc = "done",
                                !.ret = [NoRet EXCEPT !.err = h.err, !.hash = h.val]]]
    /\ calls' = calls + 1
    /\ UNCHANGED << prefix, tail, redis, crashed, ledger >>

\* --------------------------------------------------------------- StoreHash
\* The SetEX of StoreHash failed: nil and a StorageError.
StoreHashFailed(f) == Return(f, FALSE, StorageError)

\* Deduper.StoreHash up to the SetEX round-trip: the key is built, the value
\* is the sentinel.
StoreHash_Call(p, hash, expiration) ==
    /\ CanCall(p)
    /\ call' = [call EXCEPT ![p] =
                  [Begin("StoreHash", NilEntity, Idle.strategy, <<>>)
                      EXCEPT !.dedupHash = hash, !.key = buildKey(hash),
                             !.value = Sentinel, !.expiration = expiration,
                             !.pc = "SetEX"]]
    /\ tail' = buildKeyTail(hash)
    /\ calls' = calls + 1
    /\ UNCHANGED << prefix, redis, crashed, ledger >>

StoreHash_SetEX(p, ok) ==
    /\ ~crashed
    /\ call[p].op = "StoreHash" /\ call[p].pc = "SetEX"
    /\ LET f == Write(call[p], ok)
       IN  IF ok
           THEN /\ redis' = storeSetEX(redis, call[p])
                /\ ledger' = Reported(ledger, OwnKey(f), f.expiration, f.op)
                /\ call' = [call EXCEPT ![p] =
                       [f EXCEPT !.pc = "done",
                                 !.ret = [NoRet EXCEPT !.val = TRUE, !.key = f.key]]]
           ELSE /\ call' = [call EXCEPT ![p] = StoreHashFailed(f)]
                /\ UNCHANGED << redis, ledger >>
    /\ UNCHANGED << prefix, tail, calls, crashed >>

\* --------------------------------------------------------------------- TTL
\* A TTL that reads the answers as Redis encodes them: -2 for a missing key.
TTL_redis(raw, ok) ==
    IF ~ok THEN [ttl |-> 0, err |-> StorageError]
    ELSE IF raw = 0 \/ raw = MissingKey THEN [ttl |-> 0, err |-> MissingKeyError]
    ELSE IF raw < 0 THEN [ttl |-> 0, err |-> NoExpirationError]
    ELSE [ttl |-> raw, err |-> NoError]

\* Deduper.TTL after the storage answered raw, or failed.
TTL(raw, ok) ==
    IF ~ok THEN [ttl |-> 0, err |-> StorageError]
    ELSE IF raw = 0 THEN [ttl |-> 0, err |-> MissingKeyError]
    ELSE IF raw < 0 THEN [ttl |-> 0, err |-> NoExpirationError]
    ELSE [ttl |-> raw, err |-> NoError]

\* Deduper.TTL up to the storage round-trip.
TTL_Call(p, hash) ==
    /\ CanCall(p)
    /\ call' = [call EXCEPT ![p] =
                  [Begin("TTL", NilEntity, Idle.strategy, <<>>)
                      EXCEPT !.dedupHash = hash, !.key = buildKey(hash), !.pc = "TTL"]]
    /\ tail' = buildKeyTail(hash)
    /\ calls' = calls + 1
    /\ UNCHANGED << prefix, redis, crashed, ledger >>

\* The storage round-trip of Deduper.TTL: the storage answers raw, or fails.
TTL_Storage(p, ok, raw) ==
    /\ ~crashed
    /\ call[p].op = "TTL" /\ call[p].pc = "TTL"
    /\ LET f == [Observed(call[p]) EXCEPT
                    !.rawTTL = raw,
                    !.liveTTL = IF OwnKey(call[p]) \in DOMAIN ledger
                                THEN ledger[OwnKey(call[p])].ttl ELSE MissingKey]
           r == TTL(raw, ok)
       IN  call' = [call EXCEPT ![p] =
                      [f EXCEPT !.pc = "done", !.readErr = ~ok,
                                !.ret = [NoRet EXCEPT !.ttl = r.ttl, !.err = r.err]]]
    /\ UNCHANGED << prefix, tail, redis, calls, crashed, ledger >>

\* -------------------------------------------------------- IsValueDuplicate
\* What the caller's matchHandler answers on a call.
Verdicts == {"match", "mismatch", "error"}

\* An update whose failure is logged and goes no further.
UpdateFailed_swallowed(f, err) == Return(Logged(f), f.match, NoError)

\* The update after a mismatch failed with err: logged, and returned.
UpdateFailed(f, err) == Return(Logged(f), f.match, err)

\* The update after a mismatch is asked for: no second flag, or a flag of 1.
UpdateOnMismatch(storeIfNot) == Len(storeIfNot) < 2 \/ storeIfNot[2] = 1

\* An update that rewrites the record after a match as well.
ShouldUpdate_refresh(match, storeIfNot) == UpdateOnMismatch(storeIfNot)

\* The record is rewritten: the matcher said no and the update is asked for.
ShouldUpdate(match, storeIfNot) == ~match /\ UpdateOnMismatch(storeIfNot)

IsValueDuplicate_Call(p, entity, strategy, storeIfNot, extractorFails) ==
    /\ CanCall(p)
    /\ Enter(p, Begin("IsValueDuplicate", entity, strategy, storeIfNot),
             Hash(entity, strategy, FALSE, extractorFails), "Get")
    /\ calls' = calls + 1
    /\ UNCHANGED << prefix, redis, crashed, ledger >>

IsValueDuplicate_Get(p, ok, verdict, serializerFails) ==
    /\ ~crashed
    /\ call[p].op = "IsValueDuplicate" /\ call[p].pc = "Get"
    /\ LET existing == Get(KeyBytes(call[p].key))
           f == [Observed(call[p]) EXCEPT !.existing = existing]
           match == (verdict = "match")
       IN  IF ~ok
           THEN /\ call' = [call EXCEPT ![p] = ReadFailed(call[p])]
                /\ UNCHANGED << tail, crashed >>
           ELSE IF IsEmpty(existing) /\ Len(f.storeIfNot) > 0
           THEN LET s == store(f, f.storeIfNot[1], serializerFails)
                IN  /\ tail' = buildKeyTail(f.dedupHash)
                    /\ call' = [call EXCEPT ![p] =
                           IF s.err # NoError
                           THEN Return(Logged(s.frame), FALSE, NoError)
                           ELSE [s.frame EXCEPT !.path = "absent"]]
                    /\ UNCHANGED crashed
           ELSE \* d.matcher(ctx, entity, existing)
                LET g == [f EXCEPT !.verdict = verdict, !.match = match]
                IN  IF verdict = "error"
                    THEN /\ call' = [call EXCEPT ![p] = Return(g, FALSE, UncodedMatchError)]
                         /\ UNCHANGED << tail, crashed >>
                    ELSE IF ShouldUpdate(match, f.storeIfNot)
                    THEN IF Len(f.storeIfNot) = 0
                         THEN \* storeIfNot[0]: index out of range
                              /\ call' = [call EXCEPT ![p] = [g EXCEPT !.pc = "panic"]]
                              /\ crashed' = TRUE
                              /\ tail' = tail
                         ELSE LET s == store(g, f.storeIfNot[1], serializerFails)
                              IN  /\ tail' = buildKeyTail(f.dedupHash)
                                  /\ call' = [call EXCEPT ![p] =
                                         IF s.err # NoError
                                         THEN UpdateFailed(s.frame, s.err)
                                         ELSE [s.frame EXCEPT !.path = "update"]]
                                  /\ UNCHANGED crashed
                    ELSE /\ call' = [call EXCEPT ![p] = Return(g, match, NoError)]
                         /\ UNCHANGED << tail, crashed >>
    /\ UNCHANGED << prefix, redis, calls, ledger >>

IsValueDuplicate_SetEX(p, ok) ==
    /\ ~crashed
    /\ call[p].op = "IsValueDuplicate" /\ call[p].pc = "SetEX"
    /\ LET f == Write(call[p], ok)
       IN  IF ok
           THEN /\ redis' = storeSetEX(redis, call[p])
                /\ ledger' = Reported(ledger, OwnKey(f), f.expiration, f.op)
                /\ call' = [call EXCEPT ![p] = Return(f, f.match, NoError)]
           ELSE /\ call' = [call EXCEPT ![p] =
                       IF f.path = "update"
                       THEN UpdateFailed(f, StorageError)
                       ELSE Return(Logged(f), FALSE, NoError)]
                /\ UNCHANGED << redis, ledger >>
    /\ UNCHANGED << prefix, tail, calls, crashed >>

\* One time unit passes in the store.
Tick ==
    /\ ~crashed
    /\ \/ \E k \in DOMAIN redis : redis[k].ttl > 0
       \/ \E k \in DOMAIN ledger : ledger[k].ttl > 0
    /\ redis' = Elapse(redis)
    /\ ledger' = Elapse(ledger)
    /\ UNCHANGED << prefix, tail, call, calls, crashed >>

\* ---------------------------------------------------------- specifications
\* In the specifications below every entity is a T whose extraction
\* succeeds when the call is entered, every TTL a caller passes is positive,
\* and the callers of one behaviour pass one strategy, as the callers of one
\* deployment do.
SameStrategy(strategy) ==
    \A q \in Procs : call[q].op # "none" => call[q].strategy = strategy

PositiveTTL(storeIfNot) == Len(storeIfNot) > 0 => storeIfNot[1] > 0

\* The callers pass one TTL, the largest.
OneTTL(storeIfNot) == Len(storeIfNot) > 0 => storeIfNot[1] = MaxTTL

StoreSteps ==
    \/ \E p \in Procs, entity \in TEntities, strategy \in {s \in Strategies : SameStrategy(s)},
          expiration \in Durations \ {0}, serializerFails \in BOOLEAN :
            Store_Call(p, entity, strategy, expiration, FALSE, serializerFails)
    \/ \E p \in Procs, ok \in BOOLEAN : Store_SetEX(p, ok)

\* Callers of IsDuplicate and Store, concurrently, while time passes.
NextDup ==
    \/ \E p \in Procs, entity \in TEntities, strategy \in {s \in Strategies : SameStrategy(s)},
          storeIfNot \in {a \in StoreIfNots : Len(a) < 2 /\ PositiveTTL(a)} :
            IsDuplicate_Call(p, entity, strategy, storeIfNot, FALSE)
    \/ \E p \in Procs, ok \in BOOLEAN, extractorFails \in BOOLEAN, serializerFails \in BOOLEAN :
            IsDuplicate_Exists(p, ok, extractorFails, serializerFails)
    \/ \E p \in Procs, ok \in BOOLEAN : IsDuplicate_SetEX(p, ok)
    \/ StoreSteps
    \/ Tick

SpecDup == Init /\ [][NextDup]_vars

\* Callers of IsValueDuplicate and Store, concurrently, while time passes.
NextVal ==
    \/ \E p \in Procs, entity \in TEntities, strategy \in {s \in Strategies : SameStrategy(s)},
          storeIfNot \in {a \in StoreIfNots : PositiveTTL(a)} :
            IsValueDuplicate_Call(p, entity, strategy, storeIfNot, FALSE)
    \/ \E p \in Procs, ok \in BOOLEAN, verdict \in Verdicts, serializerFails \in BOOLEAN :
            IsValueDuplicate_Get(p, ok, verdict, serializerFails)
    \/ \E p \in Procs, ok \in BOOLEAN : IsValueDuplicate_SetEX(p, ok)
    \/ StoreSteps
    \/ Tick

SpecVal == Init /\ [][NextVal]_vars

\* Callers of IsDuplicate and IsValueDuplicate, concurrently, while time
\* passes, with at most a TTL as optional argument, the same for all: every
\* record in the store is one a call's write-back left there.
NextRead ==
    \/ \E p \in Procs, entity \in TEntities, strategy \in {s \in Strategies : SameStrategy(s)},
          storeIfNot \in {a \in StoreIfNots : Len(a) < 2 /\ OneTTL(a)} :
            IsDuplicate_Call(p, entity, strategy, storeIfNot, FALSE)
    \/ \E p \in Procs, ok \in BOOLEAN : IsDuplicate_Exists(p, ok, FALSE, FALSE)
    \/ \E p \in Procs, ok \in BOOLEAN : IsDuplicate_SetEX(p, ok)
    \/ \E p \in Procs, entity \in TEntities, strategy \in {s \in Strategies : SameStrategy(s)},
          storeIfNot \in {a \in StoreIfNots : Len(a) < 2 /\ OneTTL(a)} :
            IsValueDuplicate_Call(p, entity, strategy, storeIfNot, FALSE)
    \/ \E p \in Procs, ok \in BOOLEAN, verdict \in Verdicts :
            IsValueDuplicate_Get(p, ok, verdict, FALSE)
    \/ \E p \in Procs, ok \in BOOLEAN : IsValueDuplicate_SetEX(p, ok)
    \/ Tick

SpecRead == Init /\ [][NextRead]_vars

\* Callers of IsValueDuplicate, concurrently, with every form of the optional
\* arguments and one TTL, while time passes.
NextUpdate ==
    \/ \E p \in Procs, entity \in TEntities, strategy \in {s \in Strategies : SameStrategy(s)},
          storeIfNot \in {a \in StoreIfNots : OneTTL(a)} :
            IsValueDuplicate_Call(p, entity, strategy, storeIfNot, FALSE)
    \/ \E p \in Procs, ok \in BOOLEAN, verdict \in Verdicts, serializerFails \in BOOLEAN :
            IsValueDuplicate_Get(p, ok, verdict, serializerFails)
    \/ \E p \in Procs, ok \in BOOLEAN : IsValueDuplicate_SetEX(p, ok)
    \/ Tick

SpecUpdate == Init /\ [][NextUpdate]_vars

\* Every mode for the key and for the value, with the scaled thresholds.
AllStrategies ==
    { HashStrategy(km, vm, 1, 2) : km \in {AutoSmart, AlwaysHash, NeverHash},
                                   vm \in {AutoSmart, AlwaysHash, NeverHash} }

\* Entities around the thresholds: extractions of one, two and three bytes,
\* serializations from two to five bytes; and the entities that are no T.
HashEntities ==
    {NilEntity, WrongEntity}
        \cup { Entity("T", i, n) : i \in {<<1>>, <<1, 2>>, <<1, 2, 3>>}, n \in {<<>>, <<7>>} }

\* Callers of Hash, with any entity and any strategy.
NextHash ==
    \E p \in Procs, entity \in HashEntities, strategy \in AllStrategies,
       isValue \in BOOLEAN, extractorFails \in BOOLEAN :
         Hash_Call(p, entity, strategy, isValue, extractorFails)

SpecHash == Init /\ [][NextHash]_vars

\* Two entities on either side of both thresholds: an extraction of one byte
\* with a serialization of two, an extraction of two with a serialization of
\* four.
ReduceEntities == { Entity("T", <<1>>, <<>>), Entity("T", <<1, 2>>, <<7>>) }

\* Callers of Hash and Store under each strategy, while time passes.
NextReduce ==
    \/ \E p \in Procs, entity \in ReduceEntities,
          strategy \in {s \in AllStrategies : SameStrategy(s)}, isValue \in BOOLEAN :
            Hash_Call(p, entity, strategy, isValue, FALSE)
    \/ \E p \in Procs, entity \in ReduceEntities,
          strategy \in {s \in AllStrategies : SameStrategy(s)},
          expiration \in Durations \ {0} :
            Store_Call(p, entity, strategy, expiration, FALSE, FALSE)
    \/ \E p \in Procs, ok \in BOOLEAN : Store_SetEX(p, ok)
    \/ Tick

SpecReduce == Init /\ [][NextReduce]_vars

\* Two different entities with one extraction, hence one fingerprint.
MixEntities == { Entity("T", <<1>>, <<7>>), Entity("T", <<1>>, <<8>>) }

\* Callers of Store, IsDuplicate and IsValueDuplicate on entities that share
\* a fingerprint, with at most a TTL as optional argument.
NextMix ==
    \/ \E p \in Procs, entity \in MixEntities,
          strategy \in {s \in Strategies : SameStrategy(s)}, expiration \in Durations \ {0} :
            Store_Call(p, entity, strategy, expiration, FALSE, FALSE)
    \/ \E p \in Procs, ok \in BOOLEAN : Store_SetEX(p, ok)
    \/ \E p \in Procs, entity \in MixEntities,
          strategy \in {s \in Strategies : SameStrategy(s)},
          storeIfNot \in {a \in StoreIfNots : Len(a) < 2 /\ PositiveTTL(a)} :
            IsDuplicate_Call(p, entity, strategy, storeIfNot, FALSE)
    \/ \E p \in Procs, ok \in BOOLEAN : IsDuplicate_Exists(p, ok, FALSE, FALSE)
    \/ \E p \in Procs, ok \in BOOLEAN : IsDuplicate_SetEX(p, ok)
    \/ \E p \in Procs, entity \in MixEntities,
          strategy \in {s \in Strategies : SameStrategy(s)},
          storeIfNot \in {a \in StoreIfNots : Len(a) < 2 /\ PositiveTTL(a)} :
            IsValueDuplicate_Call(p, entity, strategy, storeIfNot, FALSE)
    \/ \E p \in Procs, ok \in BOOLEAN, verdict \in Verdicts :
            IsValueDuplicate_Get(p, ok, verdict, FALSE)
    \/ \E p \in Procs, ok \in BOOLEAN : IsValueDuplicate_SetEX(p, ok)
    \/ Tick

SpecMix == Init /\ [][NextMix]_vars

\* An entity with the id of one of TEntities under another name: a second
\* entity with the same extraction.
StoredEntity == Entity("T", <<1>>, <<8>>)

\* A Deduper constructed over a store in which a Store(StoredEntity,
\* strategy, MaxTTL) that has returned left its record.
InitStored ==
    /\ prefix = NewDeduper(TypeName, <<>>)
    /\ \E spare \in 0..MaxSpare : tail = [i \in 1..spare |-> 0]
    /\ \E strategy \in Strategies :
          LET key == NewDeduper(TypeName, <<>>) \o Hash(StoredEntity, strategy, FALSE, FALSE).val
          IN  /\ redis = SetEX(<< >>, key, ReduceValue(Serialize(StoredEntity), strategy), MaxTTL)
              /\ ledger = Reported(<< >>, key, MaxTTL, "Store")
    /\ call = [p \in Procs |-> Idle]
    /\ calls = 0
    /\ crashed = FALSE

\* Callers of IsDuplicate and Store over that store.
SpecStored == InitStored /\ [][NextDup]_vars

\* The fingerprints of the entities under the strategies.
EntityFingerprints ==
    { Hash(e, s, FALSE, FALSE).val : e \in TEntities, s \in Strategies }

\* Callers of StoreHash on the fingerprints of entities and of IsDuplicate
\* without a TTL on those entities, concurrently, while time passes.
NextMark ==
    \/ \E p \in Procs, hash \in EntityFingerprints, expiration \in Durations :
            StoreHash_Call(p, hash, expiration)
    \/ \E p \in Procs, ok \in BOOLEAN : StoreHash_SetEX(p, ok)
    \/ \E p \in Procs, entity \in TEntities, strategy \in Strategies :
            IsDuplicate_Call(p, entity, strategy, <<>>, FALSE)
    \/ \E p \in Procs, ok \in BOOLEAN : IsDuplicate_Exists(p, ok, FALSE, FALSE)
    \/ Tick

SpecMark == Init /\ [][NextMark]_vars

\* What a Storage may answer to TTL: any duration.
RawTTLs == {MissingKey, NoExpiry, 0} \cup (1..MaxTTL)

\* Callers of TTL over a Storage that answers anything, or fails.
NextTTL ==
    \/ \E p \in Procs, hash \in EntityFingerprints : TTL_Call(p, hash)
    \/ \E p \in Procs, ok \in BOOLEAN, raw \in RawTTLs : TTL_Storage(p, ok, raw)

SpecTTL == Init /\ [][NextTTL]_vars

\* Callers of Store and TTL over the Redis storage, concurrently, while time
\* passes, starting with a live record in the store.
NextExpiry ==
    \/ \E p \in Procs, entity \in TEntities, strategy \in Strategies, expiration \in Durations :
            Store_Call(p, entity, strategy, expiration, FALSE, FALSE)
    \/ \E p \in Procs, ok \in BOOLEAN : Store_SetEX(p, ok)
    \/ \E p \in Procs, hash \in EntityFingerprints : TTL_Call(p, hash)
    \/ \E p \in Procs, ok \in BOOLEAN :
            TTL_Storage(p, ok, StorageTTL(KeyBytes(call[p].key)))
    \/ Tick

SpecExpiry == InitStored /\ [][NextExpiry]_vars

\* Entity types a Deduper may be bound to: struct types, whose
\* reflect.Type prints as their name, and interface types.
GoType(k, n) == [kind |-> k, name |-> n]

Types ==
    { GoType("struct", TypeName), GoType("struct", <<85>>),
      GoType("interface", <<73>>), GoType("interface", <<74>>) }

\* nameOf[T](): reflect.TypeOf of the zero value of T is nil when T is an
\* interface type, and the name is then "nil".
nameOf(T) == IF T.kind = "interface" THEN <<110, 105, 108>> ELSE T.name

\* A Deduper constructed with the default prefix over a store it shares
\* with a Deduper bound to another entity type, through which a Store has
\* left a live record.
InitShared ==
    \E T \in Types, Other \in Types, strategy \in Strategies :
        /\ Other # T
        /\ prefix = NewDeduper(nameOf(T), <<>>)
        /\ \E spare \in 0..MaxSpare : tail = [i \in 1..spare |-> 0]
        /\ LET key == NewDeduper(nameOf(Other), <<>>)
                          \o Hash(StoredEntity, strategy, FALSE, FALSE).val
           IN  /\ redis = SetEX(<< >>, key, ReduceValue(Serialize(StoredEntity), strategy), MaxTTL)
               /\ ledger = Reported(<< >>, key, MaxTTL, "Other")
        /\ call = [p \in Procs |-> Idle]
        /\ calls = 0
        /\ crashed = FALSE

\* Callers of IsDuplicate and Store over the shared store.
SpecShared == InitShared /\ [][NextDup]_vars

\* A Deduper constructed with or without a custom prefix over an empty
\* store.
InitPrefixed ==
    /\ \E customPrefix \in CustomPrefixes : prefix = NewDeduper(TypeName, customPrefix)
    /\ \E spare \in 0..MaxSpare : tail = [i \in 1..spare |-> 0]
    /\ redis = << >>
    /\ ledger = << >>
    /\ call = [p \in Procs |-> Idle]
    /\ calls = 0
    /\ crashed = FALSE

\* Callers of IsDuplicate and Store on that Deduper.
SpecPrefixed == InitPrefixed /\ [][NextDup]_vars

\* The entity of the callers below; its fingerprint is the first of
\* Fingerprints.
OpsEntity == Entity("T", <<1>>, <<7>>)

\* Callers of every operation of the Deduper over the Redis storage,
\* concurrently, while time passes: one entity, one strategy, the TTL MaxTTL
\* or none, two fingerprints for StoreHash and TTL; extractor and serializer
\* succeed.
NextOps ==
    \/ \E p \in Procs, entity \in {OpsEntity}, storeIfNot \in {<<>>, <<MaxTTL>>} :
            IsDuplicate_Call(p, entity, HashStrategy(AutoSmart, AutoSmart, 1, 2), storeIfNot, FALSE)
    \/ \E p \in Procs, ok \in BOOLEAN : IsDuplicate_Exists(p, ok, FALSE, FALSE)
    \/ \E p \in Procs, ok \in BOOLEAN : IsDuplicate_SetEX(p, ok)
    \/ \E p \in Procs, entity \in {OpsEntity}, storeIfNot \in {<<>>, <<MaxTTL>>} :
            IsValueDuplicate_Call(p, entity, HashStrategy(AutoSmart, AutoSmart, 1, 2), storeIfNot, FALSE)
    \/ \E p \in Procs, ok \in BOOLEAN, verdict \in Verdicts :
            IsValueDuplicate_Get(p, ok, verdict, FALSE)
    \/ \E p \in Procs, ok \in BOOLEAN : IsValueDuplicate_SetEX(p, ok)
    \/ \E p \in Procs, entity \in {OpsEntity} :
            Store_Call(p, entity, HashStrategy(AutoSmart, AutoSmart, 1, 2), MaxTTL, FALSE, FALSE)
    \/ \E p \in Procs, ok \in BOOLEAN : Store_SetEX(p, ok)
    \/ \E p \in Procs, hash \in Fingerprints : StoreHash_Call(p, hash, MaxTTL)
    \/ \E p \in Procs, ok \in BOOLEAN : StoreHash_SetEX(p, ok)
    \/ \E p \in Procs, hash \in Fingerprints : TTL_Call(p, hash)
    \/ \E p \in Procs, ok \in BOOLEAN :
            TTL_Storage(p, ok, StorageTTL(KeyBytes(call[p].key)))
    \/ Tick

SpecOps == Init /\ [][NextOps]_vars

\* A Deduper constructed over a store that holds a record of zero length
\* under the key of an entity: Get answers it with a non-nil, empty []byte.
InitEmptyRecord ==
    /\ prefix = NewDeduper(TypeName, <<>>)
    /\ \E spare \in 0..MaxSpare : tail = [i \in 1..spare |-> 0]
    /\ \E entity \in TEntities, strategy \in Strategies :
          redis = SetEX(<< >>, NewDeduper(TypeName, <<>>) \o Hash(entity, strategy, FALSE, FALSE).val,
                        <<>>, MaxTTL)
    /\ ledger = << >>
    /\ call = [p \in Procs |-> Idle]
    /\ calls = 0
    /\ crashed = FALSE

\* Callers of IsValueDuplicate and Store over that store.
SpecEmptyRecord == InitEmptyRecord /\ [][NextVal]_vars

\* Callers of IsDuplicate, IsValueDuplicate and Store with any entity: nil,
\* of another type, or a T whose extraction succeeds or fails.
NextFail ==
    \/ \E p \in Procs, entity \in {NilEntity, WrongEntity, OpsEntity},
          strategy \in {s \in Strategies : SameStrategy(s)},
          storeIfNot \in {<<>>, <<MaxTTL>>}, extractorFails \in BOOLEAN :
            IsDuplicate_Call(p, entity, strategy, storeIfNot, extractorFails)
    \/ \E p \in Procs, ok \in BOOLEAN : IsDuplicate_Exists(p, ok, FALSE, FALSE)
    \/ \E p \in Procs, ok \in BOOLEAN : IsDuplicate_SetEX(p, ok)
    \/ \E p \in Procs, entity \in {NilEntity, WrongEntity, OpsEntity},
          strategy \in {s \in Strategies : SameStrategy(s)},
          storeIfNot \in {<<>>, <<MaxTTL>>}, extractorFails \in BOOLEAN :
            IsValueDuplicate_Call(p, entity, strategy, storeIfNot, extractorFails)
    \/ \E p \in Procs, ok \in BOOLEAN, verdict \in Verdicts :
            IsValueDuplicate_Get(p, ok, verdict, FALSE)
    \/ \E p \in Procs, ok \in BOOLEAN : IsValueDuplicate_SetEX(p, ok)
    \/ \E p \in Procs, entity \in {NilEntity, WrongEntity, OpsEntity},
          strategy \in {s \in Strategies : SameStrategy(s)}, extractorFails \in BOOLEAN :
            Store_Call(p, entity, strategy, MaxTTL, extractorFails, FALSE)
    \/ \E p \in Procs, ok \in BOOLEAN : Store_SetEX(p, ok)

SpecFail == Init /\ [][NextFail]_vars

\* Strategies that agree on KeyHashMode and KeyThreshold and differ in
\* ValueHashMode and ValThreshold.
KeyAlike ==
    { HashStrategy(AutoSmart, vm, 1, vt) :
        vm \in {AutoSmart, AlwaysHash, NeverHash}, vt \in {1, 2} }

\* A Deduper constructed over a store in which a Store(OpsEntity, s1, MaxTTL)
\* that has returned left its record, for a strategy s1 of KeyAlike.
InitKeyed ==
    /\ prefix = NewDeduper(TypeName, <<>>)
    /\ \E spare \in 0..MaxSpare : tail = [i \in 1..spare |-> 0]
    /\ \E s1 \in KeyAlike :
          LET key == NewDeduper(TypeName, <<>>) \o Hash(OpsEntity, s1, FALSE, FALSE).val
          IN  /\ redis = SetEX(<< >>, key, ReduceValue(Serialize(OpsEntity), s1), MaxTTL)
              /\ ledger = Reported(<< >>, key, MaxTTL, "Store")
    /\ call = [p \in Procs |-> Idle]
    /\ calls = 0
    /\ crashed = FALSE

\* Callers of IsDuplicate without a TTL and of Store, each call with a
\* strategy of its own from KeyAlike, while time passes.
NextKeyed ==
    \/ \E p \in Procs, entity \in TEntities, s2 \in KeyAlike :
            IsDuplicate_Call(p, entity, s2, <<>>, FALSE)
    \/ \E p \in Procs, ok \in BOOLEAN : IsDuplicate_Exists(p, ok, FALSE, FALSE)
    \/ \E p \in Procs, entity \in TEntities, s2 \in KeyAlike :
            Store_Call(p, entity, s2, MaxTTL, FALSE, FALSE)
    \/ \E p \in Procs, ok \in BOOLEAN : Store_SetEX(p, ok)
    \/ Tick

SpecKeyed == InitKeyed /\ [][NextKeyed]_vars

\* ------------------------------------------------------------------ claims
Returned(p, op) == call[p].op = op /\ call[p].pc = "done"

\* The record a call's SetEX leaves in the store.
RecordOf(f) ==
    [val |-> f.value, ttl |-> IF f.expiration > 0 THEN f.expiration ELSE NoExpiry]

\* C1: IsDuplicate returns true if and only if prefix ++ fingerprint(entity,
\* strategy) was in the store at the moment of its existence query, with or
\* without a store-if-absent TTL.
C1_ReturnsPresenceOfOwnKey ==
    \A p \in Procs :
        (Returned(p, "IsDuplicate") /\ call[p].read)
            => /\ call[p].ret.err = NoError
               /\ call[p].ret.val = call[p].present

\* C2: duplicate lifecycle.  IsDuplicate(e) is false while no write to e's
\* key is live (before any store, and again once the TTL has elapsed), and
\* true while the write of a successful Store(e, ttl) is live.
C2_DuplicateLifecycle ==
    \A p \in Procs :
        (Returned(p, "IsDuplicate") /\ call[p].read)
            => /\ call[p].expected = "none"  => call[p].ret.val = FALSE
               /\ call[p].expected = "Store" => call[p].ret.val = TRUE

C4_WriteBackFailureSwallowed ==
    \A p \in Procs :
        (Returned(p, "IsDuplicate") /\ call[p].writeErr \in {"SetEX", "serializer"})
            => /\ call[p].ret.val = FALSE
               /\ call[p].ret.err = NoError
               /\ call[p].logged

\* Both failures have happened: one call lost its SetEX, the other its
\* serializer.
C4_witness ==
    /\ Returned("p1", "IsDuplicate") /\ Returned("p2", "IsDuplicate")
    /\ {call["p1"].writeErr, call["p2"].writeErr} = {"SetEX", "serializer"}
    /\ ~call["p1"].exists /\ ~call["p2"].exists

\* C5: check-then-store is not atomic.  The write-back of a call that saw
\* the key absent is carried out whatever the store holds by then: it
\* returns false and leaves its own record under the key it wrote.
C5_WriteBackUnconditional ==
    [][ \A p \in Procs :
          ( /\ call[p].op = "IsDuplicate" /\ call[p].pc = "SetEX"
            /\ call'[p].pc = "done" /\ call'[p].writeErr = "" )
          => /\ call'[p].ret.val = FALSE
             /\ call'[p].wroteKey \in DOMAIN redis'
             /\ redis'[call'[p].wroteKey] = RecordOf(call[p]) ]_vars

\* Two concurrent IsDuplicate calls on one fingerprint both saw the key
\* absent, both returned false and both wrote the key.
C5_witness ==
    /\ \A p \in Procs :
        /\ Returned(p, "IsDuplicate")
        /\ call[p].read /\ ~call[p].exists /\ ~call[p].present
        /\ call[p].wrote /\ call[p].writeErr = ""
        /\ call[p].wroteKey = OwnKey(call[p])
        /\ call[p].ret.val = FALSE /\ call[p].ret.err = NoError
    /\ call["p1"].dedupHash = call["p2"].dedupHash

\* C6: under any interleaving of calls on one Deduper, every store operation
\* a call issues uses exactly prefix ++ that call's own fingerprint.
C6_StoreOperationsUseOwnKey ==
    \A p \in Procs :
        /\ call[p].readKey # <<>> => call[p].readKey = OwnKey(call[p])
        /\ call[p].wrote => call[p].wroteKey = OwnKey(call[p])

\* C7: IsValueDuplicate without a TTL on an absent record returns
\* (false, nil) without invoking the matcher, writing or failing.
C7_AbsentWithoutTTL ==
    \A p \in Procs :
        ( /\ call[p].op = "IsValueDuplicate" /\ call[p].storeIfNot = <<>>
          /\ call[p].read /\ IsEmpty(call[p].existing) )
        => /\ call[p].pc = "done"
           /\ call[p].ret.val = FALSE /\ call[p].ret.err = NoError
           /\ call[p].verdict = ""
           /\ ~call[p].wrote

\* C8: IsValueDuplicate with a TTL on an absent record stores the serialized
\* entity under prefix ++ fingerprint with that TTL and returns (false, nil)
\* without invoking the matcher; a failure of that store is only logged.
C8_AbsentWithTTL ==
    \A p \in Procs :
        ( /\ Returned(p, "IsValueDuplicate") /\ Len(call[p].storeIfNot) > 0
          /\ call[p].read /\ IsEmpty(call[p].existing) )
        => /\ call[p].ret.val = FALSE /\ call[p].ret.err = NoError
           /\ call[p].verdict = ""
           /\ call[p].writeErr # "" => call[p].logged
           /\ call[p].writeErr = ""
                => /\ call[p].wrote
                   /\ call[p].wroteKey = OwnKey(call[p])
                   /\ call[p].expiration = call[p].storeIfNot[1]
                   /\ call[p].value = ReduceValue(Serialize(call[p].entity), call[p].strategy)

\* C9: when a record is present under the key, IsValueDuplicate returns
\* exactly the matcher's verdict on it; (true, nil) when the matcher accepts.
C9_ReturnsMatcherVerdict ==
    \A p \in Procs :
        ( /\ call[p].op = "IsValueDuplicate"
          /\ call[p].read /\ ~IsEmpty(call[p].existing)
          /\ call[p].verdict \in {"match", "mismatch"} )
        => /\ call[p].pc \in {"SetEX", "done"}
           /\ call[p].pc = "done" => call[p].ret.val = (call[p].verdict = "match")
           /\ call[p].verdict = "match" => (call[p].pc = "done" /\ call[p].ret.err = NoError)

\* C10: IsValueDuplicate with no TTL argument on a record that does not
\* match the entity returns (false, nil): no error, no crash.
C10_MismatchWithoutTTL ==
    \A p \in Procs :
        ( /\ call[p].op = "IsValueDuplicate" /\ call[p].storeIfNot = <<>>
          /\ call[p].read /\ ~IsEmpty(call[p].existing)
          /\ call[p].verdict = "mismatch" )
        => /\ call[p].pc = "done"
           /\ call[p].ret.val = FALSE /\ call[p].ret.err = NoError

\* C11: update on mismatch.  When IsValueDuplicate finds a record that does
\* not match and the update is not suppressed, it re-stores the serialized
\* entity under the key it read, prefix ++ fingerprint, with the supplied
\* TTL, and returns (false, nil).
C11_UpdateOnMismatch ==
    \A p \in Procs :
        ( /\ call[p].op = "IsValueDuplicate"
          /\ call[p].read /\ ~IsEmpty(call[p].existing)
          /\ call[p].verdict = "mismatch" /\ UpdateOnMismatch(call[p].storeIfNot) )
        => /\ call[p].pc \in {"SetEX", "done"}
           /\ (call[p].pc = "done" /\ call[p].writeErr = "")
                => /\ call[p].wrote
                   /\ call[p].wroteKey = call[p].readKey
                   /\ call[p].wroteKey = OwnKey(call[p])
                   /\ Len(call[p].storeIfNot) > 0
                   /\ call[p].expiration = call[p].storeIfNot[1]
                   /\ call[p].value = ReduceValue(Serialize(call[p].entity), call[p].strategy)
                   /\ call[p].ret.val = FALSE /\ call[p].ret.err = NoError

\* C12: when the re-store on a mismatch fails, in SetEX or in the serializer,
\* IsValueDuplicate returns (false, StorageError); when the store of the
\* absent branch fails, it returns (false, nil).
C12_UpdateFailurePropagates ==
    \A p \in Procs :
        (Returned(p, "IsValueDuplicate") /\ call[p].writeErr \in {"SetEX", "serializer"})
            => /\ call[p].ret.val = FALSE
               /\ call[p].verdict = "mismatch" => call[p].ret.err = StorageError
               /\ call[p].verdict = "" => call[p].ret.err = NoError

\* A call found a record, the matcher rejected it, and the SetEX of the
\* update failed.
C12_witness ==
    \E p \in Procs :
        /\ Returned(p, "IsValueDuplicate")
        /\ ~IsEmpty(call[p].existing) /\ call[p].verdict = "mismatch"
        /\ call[p].wrote /\ call[p].writeErr = "SetEX"
        /\ call[p].ret.val = FALSE /\ call[p].ret.err = StorageError

\* C13: on a mismatching record, IsValueDuplicate with the second optional
\* argument suppressing the update issues no write and returns (false, nil);
\* with the second argument omitted it performs the update.
C13_SuppressedUpdate ==
    \A p \in Procs :
        ( /\ call[p].op = "IsValueDuplicate"
          /\ call[p].read /\ ~IsEmpty(call[p].existing)
          /\ call[p].verdict = "mismatch" )
        => /\ (Len(call[p].storeIfNot) = 2 /\ call[p].storeIfNot[2] # 1)
                => /\ call[p].pc = "done"
                   /\ ~call[p].wrote
                   /\ call[p].ret.val = FALSE /\ call[p].ret.err = NoError
           /\ Len(call[p].storeIfNot) < 2
                => /\ call[p].pc \in {"SetEX", "done"}
                   /\ (call[p].pc = "done" /\ call[p].writeErr # "serializer")
                        => call[p].wrote

\* C14: value-duplicate content sensitivity.  While the write of Store(e1)
\* is live, IsValueDuplicate(e2) for a different e2 with e1's fingerprint,
\* whose content a content-comparing matcher rejects, returns false, and
\* IsDuplicate(e2) on the same key returns true.
C14_ContentSensitivity ==
    \A p \in Procs :
        /\ ( /\ call[p].op = "IsValueDuplicate"
             /\ call[p].read /\ ~IsEmpty(call[p].existing)
             /\ call[p].expected = "Store"
             /\ call[p].existing.bytes #
                    ReduceValue(Serialize(call[p].entity), call[p].strategy)
             /\ call[p].verdict = "mismatch" )
           => /\ call[p].pc \in {"SetEX", "done"}
              /\ call[p].pc = "done" => call[p].ret.val = FALSE
        /\ ( /\ Returned(p, "IsDuplicate")
             /\ call[p].read /\ call[p].expected = "Store" )
           => call[p].ret.val = TRUE

\* C15: when the matcher fails, IsValueDuplicate returns false with an error
\* tagged with a kind of its own, distinct from StorageError, and issues no
\* write.
C15_MatcherFailure ==
    \A p \in Procs :
        (call[p].op = "IsValueDuplicate" /\ call[p].verdict = "error")
            => /\ call[p].pc = "done"
               /\ call[p].ret.val = FALSE
               /\ call[p].ret.err \in ErrorCodes \ {StorageError}
               /\ ~call[p].wrote

\* C16: when the primary read fails, Exists in IsDuplicate or Get in
\* IsValueDuplicate, the call returns (false, StorageError) and issues no
\* SetEX, with or without a store-if-absent TTL.
C16_ReadFailure ==
    \A p \in Procs :
        call[p].readErr
            => /\ call[p].pc = "done"
               /\ call[p].ret.val = FALSE
               /\ call[p].ret.err = StorageError
               /\ ~call[p].wrote
               /\ call[p].verdict = ""

\* The read failed in an IsDuplicate and in an IsValueDuplicate that were
\* both given a TTL.
C16_witness ==
    \E p, q \in Procs :
        /\ call[p].op = "IsDuplicate" /\ call[q].op = "IsValueDuplicate"
        /\ call[p].readErr /\ call[q].readErr
        /\ Len(call[p].storeIfNot) > 0 /\ Len(call[q].storeIfNot) > 0
        /\ call[p].ret.err = StorageError /\ call[q].ret.err = StorageError

\* The mode and the threshold a call of Hash goes by.
ModeOf(f) == IF f.isValue THEN f.strategy.ValueHashMode ELSE f.strategy.KeyHashMode
ThresholdOf(f) == IF f.isValue THEN f.strategy.ValThreshold ELSE f.strategy.KeyThreshold

\* C17: fingerprint reduction in Hash.  Under NeverHash the extracted bytes
\* are returned unchanged; under AlwaysHash their digest is, whatever their
\* length; under AutoSmart with threshold N they are returned unchanged when
\* their length is at most N and their digest is returned when it is N+1 or
\* more.
C17_HashReduction ==
    \A p \in Procs :
        (Returned(p, "Hash") /\ call[p].ret.err = NoError)
            => LET input == Extract(call[p].entity)
                   mode  == ModeOf(call[p])
                   N     == ThresholdOf(call[p])
               IN  /\ mode = NeverHash  => call[p].ret.hash = input
                   /\ mode = AlwaysHash => call[p].ret.hash = Digest(input)
                   /\ (mode = AutoSmart /\ Len(input) <= N) => call[p].ret.hash = input
                   /\ (mode = AutoSmart /\ Len(input) >= N + 1)
                        => call[p].ret.hash = Digest(input)

\* Hash under AutoSmart returned an extraction of exactly KeyThreshold bytes
\* unchanged.
C17_witness ==
    \E p \in Procs :
        /\ Returned(p, "Hash") /\ call[p].ret.err = NoError /\ ~call[p].isValue
        /\ call[p].strategy.KeyHashMode = AutoSmart
        /\ Len(Extract(call[p].entity)) = call[p].strategy.KeyThreshold
        /\ call[p].ret.hash = Extract(call[p].entity)

\* C18: the digest constructor is invoked only when the strategy requires
\* reduction: never on a path whose mode is NeverHash, and never under
\* AutoSmart for an input within the threshold; neither by Hash nor by the
\* value reduction of store.
C18_LazyDigest ==
    \A p \in Procs :
        /\ call[p].keyDigest
            => /\ ModeOf(call[p]) # NeverHash
               /\ ~( /\ ModeOf(call[p]) = AutoSmart
                     /\ Len(Extract(call[p].entity)) <= ThresholdOf(call[p]) )
        /\ call[p].valDigest
            => /\ call[p].strategy.ValueHashMode # NeverHash
               /\ ~( /\ call[p].strategy.ValueHashMode = AutoSmart
                     /\ Len(Serialize(call[p].entity)) <= call[p].strategy.ValThreshold )

\* Under AutoSmart for key and value, one Store of an entity within both
\* thresholds wrote without a digest, and one Store of an entity over both
\* thresholds digested the fingerprint and the value.
C18_witness ==
    \E p, q \in Procs :
        /\ Returned(p, "Store") /\ Returned(q, "Store")
        /\ call[p].strategy = HashStrategy(AutoSmart, AutoSmart, 1, 2)
        /\ call[p].wrote /\ ~call[p].keyDigest /\ ~call[p].valDigest
        /\ call[p].value = Serialize(call[p].entity)
        /\ call[q].wrote /\ call[q].keyDigest /\ call[q].valDigest

\* C20: Hash of a nil entity fails with EntityNilError and Hash of a value
\* whose runtime type is not the bound type T fails with
\* EntityTypeMismatchError; in both cases the caller's extractor is not
\* invoked, and the two errors are distinct.
C20_TypeSafety ==
    /\ EntityNilError # EntityTypeMismatchError
    /\ \A p \in Procs :
           Returned(p, "Hash") =>
               /\ call[p].entity.kind = "nil"
                   => /\ call[p].ret.err = EntityNilError
                      /\ ~call[p].extracted
               /\ call[p].entity.kind \notin {"nil", "T"}
                   => /\ call[p].ret.err = EntityTypeMismatchError
                      /\ ~call[p].extracted

\* A Hash of a value of another type has returned EntityTypeMismatchError
\* with the extractor untouched, after an earlier Hash call.
C20_witness ==
    \E p \in Procs :
        /\ Returned(p, "Hash")
        /\ call[p].entity = WrongEntity
        /\ call[p].ret.err = EntityTypeMismatchError
        /\ call[p].ret.hash = <<>>
        /\ ~call[p].extracted /\ ~call[p].keyDigest
        /\ calls = 2

\* C19: Hash determinism.  Entities of the bound type with equal extractor
\* outputs have equal fingerprints under one strategy, and so a second
\* entity with the properties of one whose Store is live is reported as a
\* duplicate by IsDuplicate.
C19_SameProperties ==
    \A p \in Procs :
        Extract(call[p].entity) = Extract(StoredEntity) =>
            /\ call[p].key # NoKey
                => call[p].dedupHash = Hash(StoredEntity, call[p].strategy, FALSE, FALSE).val
            /\ (Returned(p, "IsDuplicate") /\ call[p].read /\ call[p].expected = "Store")
                => /\ call[p].ret.err = NoError
                   /\ call[p].ret.val = TRUE

\* C21: when the caller's extractor returns an error for an entity of the
\* bound type, Hash fails with an error of kind InvalidHashError that wraps
\* the extractor's error.
C21_ExtractorFailure ==
    \A p \in Procs :
        ( /\ Returned(p, "Hash")
          /\ call[p].entity.kind = "T"
          /\ call[p].extracted
          /\ call[p].ret.err # NoError )
            => call[p].ret.err = InvalidHashError

\* C22: a successful Store(e, strategy, ttl) writes its record at
\* prefix ++ Hash(e, strategy) with the given TTL; the value is the
\* serializer's output, unchanged under NeverHash or under AutoSmart within
\* ValThreshold and the hex text of its digest otherwise; the call returns
\* that fingerprint and that key.
C22_StoreWrites ==
    \A p \in Procs :
        (Returned(p, "Store") /\ call[p].wrote /\ call[p].ret.err = NoError) =>
            LET f    == call[p]
                hash == Hash(f.entity, f.strategy, FALSE, FALSE).val
                ser  == Serialize(f.entity)
                raw  == \/ f.strategy.ValueHashMode = NeverHash
                        \/ /\ f.strategy.ValueHashMode = AutoSmart
                           /\ Len(ser) <= f.strategy.ValThreshold
            IN  /\ f.wroteKey = prefix \o hash
                /\ f.value = IF raw THEN ser ELSE HexEncode(Digest(ser))
                /\ f.expiration > 0
                /\ f.ret.hash = hash
                /\ KeyBytes(f.ret.key) = prefix \o hash

\* C23: when the store write fails, Store returns a StorageError with no
\* fingerprint and no key, and the content of the store is unchanged.
C23_StoreWriteFailure ==
    [][ \A p \in Procs :
          ( /\ call[p].op = "Store" /\ call[p].pc = "SetEX"
            /\ call'[p].pc = "done" /\ call'[p].writeErr = "SetEX" )
              => /\ call'[p].ret.err = StorageError
                 /\ call'[p].ret.hash = <<>>
                 /\ call'[p].ret.key = NoKey
                 /\ redis' = redis ]_vars

\* A Store whose SetEX failed has returned the StorageError over a store
\* that holds another caller's record and none of its own.
C23_witness ==
    \E p \in Procs :
        /\ Returned(p, "Store")
        /\ call[p].wrote /\ call[p].writeErr = "SetEX"
        /\ call[p].ret.err = StorageError
        /\ call[p].ret.hash = <<>> /\ call[p].ret.key = NoKey
        /\ OwnKey(call[p]) \notin DOMAIN redis
        /\ DOMAIN redis # {}

\* C24: when the serializer fails, Store fails with an error of a kind of
\* its own, distinct from the StorageError of store failures, and issues no
\* write to the store.
C24_SerializerFailure ==
    \A p \in Procs :
        (Returned(p, "Store") /\ call[p].writeErr = "serializer")
            => /\ call[p].ret.err \notin {NoError, StorageError}
               /\ ~call[p].wrote

\* C25: StoreHash(fingerprint, ttl) writes the sentinel "1" at
\* prefix ++ fingerprint with the given TTL and returns that key; while that
\* write is live IsDuplicate of an entity with that fingerprint returns
\* true; on a store failure StoreHash returns a StorageError and no key.
C25_StoreHash ==
    \A p \in Procs :
        /\ (Returned(p, "StoreHash") /\ call[p].ret.err = NoError)
            => /\ call[p].wrote
               /\ call[p].wroteKey = prefix \o call[p].dedupHash
               /\ call[p].value = Sentinel
               /\ KeyBytes(call[p].ret.key) = prefix \o call[p].dedupHash
        /\ (Returned(p, "StoreHash") /\ call[p].writeErr = "SetEX")
            => /\ call[p].ret.err = StorageError
               /\ call[p].ret.key = NoKey
        /\ (Returned(p, "IsDuplicate") /\ call[p].read /\ call[p].expected = "StoreHash")
            => /\ call[p].ret.err = NoError
               /\ call[p].ret.val = TRUE

\* C26: TTL(fingerprint) reads the value the store returns three ways: 0 is
\* a MissingKeyError, a negative value a NoExpirationError, a positive value
\* is returned unchanged without error; a store error is a StorageError.
\* With every error the duration returned is 0.
C26_TTLInterpretation ==
    \A p \in Procs :
        Returned(p, "TTL") =>
            LET f == call[p]
            IN  /\ f.readErr => f.ret.err = StorageError
                /\ (~f.readErr /\ f.rawTTL = 0) => f.ret.err = MissingKeyError
                /\ (~f.readErr /\ f.rawTTL < 0) => f.ret.err = NoExpirationError
                /\ (~f.readErr /\ f.rawTTL > 0)
                     => (f.ret.err = NoError /\ f.ret.ttl = f.rawTTL)
                /\ f.ret.err # NoError => f.ret.ttl = 0

\* One TTL was answered 0 and returned the MissingKeyError, another was
\* answered -2 and returned the NoExpirationError.
C26_witness ==
    \E p, q \in Procs :
        /\ Returned(p, "TTL") /\ Returned(q, "TTL")
        /\ ~call[p].readErr /\ call[p].rawTTL = 0
        /\ call[p].ret.err = MissingKeyError /\ call[p].ret.ttl = 0
        /\ ~call[q].readErr /\ call[q].rawTTL = MissingKey
        /\ call[q].ret.err = NoExpirationError /\ call[q].ret.ttl = 0

\* C27: while the record of a Store(e, strategy, ttl) with ttl > 0 is live,
\* TTL of its fingerprint returns a duration t with 0 < t <= ttl, at most
\* the time the record has left, so that it never increases as time
\* advances.
C27_RemainingTTL ==
    \A p \in Procs :
        ( /\ Returned(p, "TTL") /\ ~call[p].readErr
          /\ call[p].expected = "Store" /\ call[p].liveTTL > 0 )
            => /\ call[p].ret.err = NoError
               /\ 0 < call[p].ret.ttl
               /\ call[p].ret.ttl <= call[p].liveTTL
               /\ call[p].ret.ttl <= MaxTTL

\* C28: over the Redis storage, TTL of a fingerprint whose key is not in
\* the store, because its record expired or because it was never stored,
\* fails with the MissingKeyError and not with the NoExpirationError.
C28_MissingKey ==
    \A p \in Procs :
        (Returned(p, "TTL") /\ ~call[p].readErr /\ ~call[p].present)
            => call[p].ret.err = MissingKeyError

\* C29: namespace isolation.  Two Dedupers with default prefixes over two
\* different entity types share one store; for inputs with identical
\* fingerprints a Store through one never makes IsDuplicate through the
\* other return true, the default prefixes of distinct types being distinct.
C29_NamespaceIsolation ==
    \A p \in Procs :
        (Returned(p, "IsDuplicate") /\ call[p].read /\ call[p].expected = "Other")
            => call[p].ret.val = FALSE

\* C30: every key a Deduper passes to the store is exactly
\* prefix ++ fingerprint, where the prefix is "dedup:" ++ type name ++ ":"
\* when no custom prefix, or an empty one, was given at construction, and
\* exactly the custom prefix otherwise.
C30_KeyShape ==
    LET default == <<100, 101, 100, 117, 112, 58>> \o TypeName \o <<58>>
    IN  /\ \A c \in CustomPrefixes :
               NewDeduper(TypeName, c) = IF c = <<>> \/ c[1] = <<>> THEN default ELSE c[1]
        /\ prefix \in ({default} \cup {c[1] : c \in (CustomPrefixes \ {<<>>})}) \ {<<>>}
        /\ \A p \in Procs :
               /\ call[p].readKey # <<>>
                   => call[p].readKey = prefix \o Hash(call[p].entity, call[p].strategy, FALSE, FALSE).val
               /\ call[p].wrote
                   => call[p].wroteKey = prefix \o Hash(call[p].entity, call[p].strategy, FALSE, FALSE).val

\* C31: every operation issues at most two store round-trips and repeats
\* none: IsDuplicate at most one Exists and one SetEX, IsValueDuplicate at
\* most one Get and one SetEX, Store and StoreHash at most one SetEX, TTL
\* exactly one TTL query; a failed store operation is not retried.
C31_RoundTrips ==
    \A p \in Procs :
        LET f == call[p]
            n(name) == Cardinality({i \in 1..Len(f.trips) : f.trips[i] = name})
        IN  /\ Len(f.trips) <= 2
            /\ \A name \in {"Exists", "Get", "SetEX", "TTL"} : n(name) <= 1
            /\ f.op = "IsDuplicate" => n("Get") + n("TTL") = 0
            /\ f.op = "IsValueDuplicate" => n("Exists") + n("TTL") = 0
            /\ f.op \in {"Store", "StoreHash"} => n("SetEX") = Len(f.trips)
            /\ Returned(p, "TTL") => f.trips = <<"TTL">>
            /\ (f.pc = "done" /\ (f.readErr \/ f.writeErr = "SetEX"))
                 => f.trips[Len(f.trips)] = (IF f.readErr THEN ReadOp(f) ELSE "SetEX")

\* An IsDuplicate with a TTL has returned after one Exists and one failed
\* SetEX, and a TTL after its one query.
C31_witness ==
    \E p, q \in Procs :
        /\ Returned(p, "IsDuplicate") /\ call[p].trips = <<"Exists", "SetEX">>
        /\ call[p].writeErr = "SetEX"
        /\ Returned(q, "TTL") /\ call[q].trips = <<"TTL">>

\* C32: the record IsDuplicate writes on its store-if-absent path is the
\* sentinel "1", not a serialization of the entity; records holding the
\* serialized entity are written only by Store and IsValueDuplicate.
C32_SentinelWriteBack ==
    \A p \in Procs :
        (call[p].op = "IsDuplicate" /\ call[p].wrote /\ call[p].writeErr = "")
            => /\ call[p].value = Sentinel
               /\ call[p].value # ReduceValue(Serialize(call[p].entity), call[p].strategy)

\* C33: IsValueDuplicate treats a record that is present with zero length
\* exactly like an absent key: with a TTL it stores the serialized entity and
\* returns (false, nil), without a TTL it returns (false, nil), and in
\* neither case is the matcher invoked.
C33_EmptyRecord ==
    \A p \in Procs :
        ( /\ call[p].op = "IsValueDuplicate" /\ call[p].read
          /\ ~call[p].existing.nil /\ call[p].existing.bytes = <<>> )
            => /\ call[p].verdict = ""
               /\ call[p].pc \in {"SetEX", "done"}
               /\ call[p].pc = "done"
                    => (call[p].ret.val = FALSE /\ call[p].ret.err = NoError)
               /\ call[p].storeIfNot = <<>> => (call[p].pc = "done" /\ ~call[p].wrote)
               /\ (call[p].storeIfNot # <<>> /\ call[p].pc = "done" /\ call[p].writeErr = "")
                    => call[p].wrote

\* C34: the storage adapter's TTL honours the contract the Deduper relies
\* on: 0 for a missing key, a negative value for a key that exists without
\* expiration, the positive remaining duration otherwise.
C34_AdapterTTL ==
    \A p \in Procs :
        ( /\ Returned(p, "TTL") /\ ~call[p].readErr
          /\ call[p].readKey = OwnKey(call[p]) )
            => /\ ~call[p].present => call[p].rawTTL = 0
               /\ (call[p].present /\ call[p].liveTTL = NoExpiry) => call[p].rawTTL < 0
               /\ (call[p].present /\ call[p].liveTTL > 0) => call[p].rawTTL > 0

\* C35: no Deduper operation deletes a key.  A key leaves the store only
\* when its TTL runs out; the store changes otherwise only by the SetEX of
\* Store, of StoreHash and of the write-backs of IsDuplicate and
\* IsValueDuplicate; TTL(fingerprint) never writes.
C35_NoDeletion ==
    [][ /\ \A k \in DOMAIN redis \ DOMAIN redis' :
               /\ redis[k].ttl = 1
               /\ redis' = Elapse(redis)
               /\ call' = call
        /\ (redis' # redis /\ redis' # Elapse(redis)) =>
               \E p \in Procs :
                   /\ call[p].op \in {"Store", "StoreHash", "IsDuplicate", "IsValueDuplicate"}
                   /\ call[p].pc = "SetEX"
                   /\ call'[p].trips = Append(call[p].trips, "SetEX")
                   /\ redis' = SetEX(redis, call'[p].wroteKey, call[p].value, call[p].expiration)
        /\ \A p \in Procs :
               (call[p].op = "TTL" /\ call'[p] # call[p]) => redis' = redis
      ]_vars

\* The record a Store wrote has expired and its key is gone from the
\* store, and a TTL call has returned.
C35_witness ==
    \E p, q \in Procs :
        /\ Returned(p, "Store") /\ call[p].wrote /\ call[p].writeErr = ""
        /\ call[p].wroteKey \notin DOMAIN redis
        /\ Returned(q, "TTL") /\ call[q].read

\* C36: when the derivation of the fingerprint fails (nil entity, wrong
\* type, or extractor error), IsDuplicate, IsValueDuplicate and Store
\* return that error, with false or with nil fingerprint and key, without
\* any store operation and without invoking the serializer, the matcher or
\* the digest constructor.
C36_DerivationFailure ==
    \A p \in Procs :
        LET f == call[p]
        IN  ( /\ f.op \in {"IsDuplicate", "IsValueDuplicate", "Store"}
              /\ \/ f.entity.kind # "T"
                 \/ f.extracted /\ f.dedupHash = <<>> )
            => /\ f.pc = "done"
               /\ f.ret.err = ( IF f.entity.kind = "nil" THEN EntityNilError
                                ELSE IF f.entity.kind # "T" THEN EntityTypeMismatchError
                                ELSE ExtractorError )
               /\ f.ret.val = FALSE /\ f.ret.hash = <<>> /\ f.ret.key = NoKey
               /\ f.trips = <<>> /\ ~f.read /\ ~f.wrote
               /\ f.value = <<>> /\ f.writeErr = ""
               /\ f.verdict = ""
               /\ ~f.keyDigest /\ ~f.valDigest
               /\ f.entity.kind # "T" => ~f.extracted

\* A Store of a T whose extractor failed has returned the extractor's error
\* without a round-trip, beside an IsValueDuplicate that went to the store.
C36_witness ==
    \E p, q \in Procs :
        /\ Returned(p, "Store") /\ call[p].entity = OpsEntity
        /\ call[p].extracted /\ call[p].ret.err = ExtractorError
        /\ call[p].ret.hash = <<>> /\ call[p].ret.key = NoKey
        /\ call[p].trips = <<>>
        /\ Returned(q, "IsValueDuplicate") /\ call[q].entity = OpsEntity
        /\ call[q].trips # <<>>

\* C37: IsDuplicate leaves the store unchanged whenever the key already
\* exists, even if a store-if-absent TTL was supplied (the record and its
\* remaining TTL are not refreshed), and whenever no TTL was supplied.
C37_IsDuplicateFrame ==
    \A p \in Procs :
        ( /\ call[p].op = "IsDuplicate" /\ call[p].read
          /\ (call[p].present \/ call[p].storeIfNot = <<>>) )
            => /\ call[p].pc = "done"
               /\ ~call[p].wrote
               /\ call[p].trips = <<"Exists">>

\* C38: when the matcher reports a match, IsValueDuplicate returns
\* (true, nil) and leaves the store unchanged: the record is not rewritten
\* and its TTL is not refreshed, whatever optional arguments were supplied.
C38_MatchFrame ==
    \A p \in Procs :
        (call[p].op = "IsValueDuplicate" /\ call[p].verdict = "match")
            => /\ call[p].pc = "done"
               /\ call[p].ret.val = TRUE /\ call[p].ret.err = NoError
               /\ ~call[p].wrote
               /\ call[p].trips = <<"Get">>

\* An IsValueDuplicate with a TTL and the update flag found a record, the
\* matcher reported a match, and the call returned true without a write.
C38_witness ==
    \E p \in Procs :
        /\ Returned(p, "IsValueDuplicate")
        /\ Len(call[p].storeIfNot) = 2 /\ call[p].storeIfNot[2] = 1
        /\ ~IsEmpty(call[p].existing) /\ call[p].present
        /\ call[p].verdict = "match"
        /\ call[p].ret.val = TRUE /\ ~call[p].wrote

\* C39: a key a call has built, passes to the store or has returned is a
\* value of its own: no later or concurrent call on the Deduper changes its
\* bytes, and the Deduper's prefix is never changed.
C39_KeysAreValues ==
    /\ prefix = NewDeduper(TypeName, <<>>)
    /\ \A p \in Procs :
           /\ call[p].key # NoKey
               => KeyBytes(call[p].key) = prefix \o call[p].dedupHash
           /\ call[p].ret.key # NoKey
               => KeyBytes(call[p].ret.key) = prefix \o call[p].dedupHash

\* C40: the key of an entity depends only on the prefix, the extractor
\* output, KeyHashMode and KeyThreshold: Store(e, s1, ttl) followed before
\* expiry by IsDuplicate(e, s2) returns true for all strategies s1, s2 that
\* agree on KeyHashMode and KeyThreshold, whatever their value settings.
C40_KeySettingsOnly ==
    /\ \A e \in TEntities, s1 \in AllStrategies, s2 \in AllStrategies :
           (s1.KeyHashMode = s2.KeyHashMode /\ s1.KeyThreshold = s2.KeyThreshold)
               => Hash(e, s1, FALSE, FALSE) = Hash(e, s2, FALSE, FALSE)
    /\ \A p \in Procs :
           ( /\ Returned(p, "IsDuplicate") /\ call[p].entity = OpsEntity
             /\ call[p].read /\ call[p].expected = "Store" )
               => /\ call[p].ret.err = NoError
                  /\ call[p].ret.val = TRUE

====
